---- MODULE Spec2Model ----
(***************************************************************************)
(* A model of the function/method-boundary detector and annotated          *)
(* renderer: MarkdownFormatter (pygments/formatters/markdown.py) and the   *)
(* Java line classifier is_java_method_start (JavaChecker.py).             *)
(*                                                                         *)
(* Text is a sequence of one-character strings, so that splitting on line  *)
(* breaks, substring search and whitespace normalisation are computed as   *)
(* Python computes them.  Indices into the token list are 0-based as in    *)
(* the source; token i of the list is tokens[i + 1].                       *)
(***************************************************************************)
EXTENDS Integers, Sequences, FiniteSets, TLC

VARIABLES
    self,                 \* the MarkdownFormatter's configuration fields
    tokens,               \* tokens = list(tokensource)
    pc,                   \* position of the running call
    i,                    \* index of the discovery pre-pass
    function_signatures,  \* the Signature Records of the call
    current_line,         \* parts of the line being assembled
    line_number,          \* number given to the next written line
    token_idx,            \* index of the emission loop
    outfile,              \* what has been written, one entry per write
    nl_consumed,          \* newline characters of the tokens consumed so far
    scan_start,           \* start index of the last direct scanner call
    scan_result,          \* result of the last direct scanner call
    line,                 \* the line given to is_java_method_start
    java_result,          \* what is_java_method_start returned for it
    options,              \* the keyword arguments given to __init__
    other,                \* the local variables of a second, suspended call
    category,             \* the category given to _get_markdown_style
    style                 \* what _get_markdown_style returned for it

vars == <<self, tokens, pc, i, function_signatures, current_line, line_number,
          token_idx, outfile, nl_consumed, scan_start, scan_result, line,
          java_result, options, other, category,
          style>>

scan_vars == <<scan_start, scan_result>>

java_vars == <<line, java_result>>

init_vars == <<options, other>>

style_vars == <<category, style>>

----------------------------------------------------------------------------
(* Python's str operations, on sequences of characters *)

NL == "\n"

Max(a, b) == IF a >= b THEN a ELSE b

Min(a, b) == IF a <= b THEN a ELSE b

\* ''.join(parts)
RECURSIVE Join(_)
Join(parts) ==
    IF parts = <<>> THEN <<>> ELSE Head(parts) \o Join(Tail(parts))

\* s.count(c)
Count(s, c) == Cardinality({k \in 1..Len(s) : s[k] = c})

\* c in s, for a single character c
HasChar(s, c) == \E k \in 1..Len(s) : s[k] = c

\* s.split(c): the pieces of s between the occurrences of c, empty ones kept
RECURSIVE Split(_, _)
Split(s, c) ==
    IF ~HasChar(s, c) THEN <<s>>
    ELSE LET k == CHOOSE k \in 1..Len(s) :
                      s[k] = c /\ \A m \in 1..(k - 1) : s[m] # c
         IN  <<SubSeq(s, 1, k - 1)>> \o Split(SubSeq(s, k + 1, Len(s)), c)

\* s.startswith(p)
StartsWith(s, p) == Len(p) <= Len(s) /\ SubSeq(s, 1, Len(p)) = p

\* s.endswith(p)
EndsWith(s, p) ==
    Len(p) <= Len(s) /\ SubSeq(s, Len(s) - Len(p) + 1, Len(s)) = p

\* sub in s
Contains(s, sub) ==
    \E k \in 0..(Len(s) - Len(sub)) : SubSeq(s, k + 1, k + Len(sub)) = sub

\* the characters str.strip(), str.split() and the regex class \s take as space
SpaceChars == {" ", "\t", "\n", "\r", "\f"}

RECURSIVE LStrip(_)
LStrip(s) ==
    IF s # <<>> /\ Head(s) \in SpaceChars THEN LStrip(Tail(s)) ELSE s

RECURSIVE RStrip(_)
RStrip(s) ==
    IF s # <<>> /\ s[Len(s)] \in SpaceChars
    THEN RStrip(SubSeq(s, 1, Len(s) - 1)) ELSE s

\* s.strip()
Strip(s) == LStrip(RStrip(s))

\* ' '.join(s.split()) for a stripped s: every run of space characters
\* becomes one space
RECURSIVE CollapseSpaces(_)
CollapseSpaces(s) ==
    IF s = <<>> THEN <<>>
    ELSE IF Head(s) \in SpaceChars
         THEN <<" ">> \o CollapseSpaces(LStrip(s))
         ELSE <<Head(s)>> \o CollapseSpaces(Tail(s))

UpperCase == <<"A", "B", "C", "D", "E", "F", "G", "H", "I", "J", "K", "L", "M",
               "N", "O", "P", "Q", "R", "S", "T", "U", "V", "W", "X", "Y", "Z">>

LowerCase == <<"a", "b", "c", "d", "e", "f", "g", "h", "i", "j", "k", "l", "m",
               "n", "o", "p", "q", "r", "s", "t", "u", "v", "w", "x", "y", "z">>

Digits == {"0", "1", "2", "3", "4", "5", "6", "7", "8", "9"}

Letters == {UpperCase[k] : k \in 1..26} \cup {LowerCase[k] : k \in 1..26}

LowerChar(c) ==
    IF \E k \in 1..26 : UpperCase[k] = c
    THEN LowerCase[CHOOSE k \in 1..26 : UpperCase[k] = c]
    ELSE c

\* s.lower()
Lower(s) == [k \in 1..Len(s) |-> LowerChar(s[k])]

\* s.isidentifier()
IsIdentifier(s) ==
    /\ s # <<>>
    /\ s[1] \in Letters \cup {"_"}
    /\ \A k \in 1..Len(s) : s[k] \in Letters \cup Digits \cup {"_"}

----------------------------------------------------------------------------
(* pygments.token: the token categories the formatter names *)

Whitespace == "Text.Whitespace"
Keyword == "Keyword"
KeywordDeclaration == "Keyword.Declaration"
KeywordType == "Keyword.Type"
Name == "Name"
NameFunction == "Name.Function"
NameOther == "Name.Other"
NameBuiltinType == "Name.Builtin.Type"
Punctuation == "Punctuation"
String == "Literal.String"
Comment == "Comment"
CommentSingle == "Comment.Single"

\* None, for a name or a parameter text
None == <<"<None>">>

----------------------------------------------------------------------------
(* MarkdownFormatter._is_function_definition *)

\* the callable-introducer keywords of the head test
DefKeywords ==
    { <<"d", "e", "f">>,
      <<"f", "u", "n", "c", "t", "i", "o", "n">>,
      <<"f", "n">>,
      <<"f", "u", "n", "c">>,
      <<"m", "e", "t", "h", "o", "d">>,
      <<"p", "r", "o", "c">>,
      <<"p", "r", "o", "c", "e", "d", "u", "r", "e">>,
      <<"s", "u", "b">>,
      <<"s", "u", "b", "r", "o", "u", "t", "i", "n", "e">> }

\* the modifier and primitive-type literals of the look-back test
ModifierLiterals ==
    { <<"p", "u", "b", "l", "i", "c">>,
      <<"p", "r", "i", "v", "a", "t", "e">>,
      <<"p", "r", "o", "t", "e", "c", "t", "e", "d">>,
      <<"s", "t", "a", "t", "i", "c">>,
      <<"v", "o", "i", "d">>,
      <<"i", "n", "t">>,
      <<"s", "t", "r", "i", "n", "g">>,
      <<"b", "o", "o", "l">>,
      <<"f", "l", "o", "a", "t">>,
      <<"d", "o", "u", "b", "l", "e">> }

\* how far the look-back of the head test reaches
LookBack == 5

\* return False, None, None, start_idx
NotFound(start_idx) ==
    [found |-> FALSE, name |-> None, parameters |-> None, end_idx |-> start_idx]

\* while i < len(tokens) and tokens[i][0] in (Whitespace,): i += 1
RECURSIVE SkipWhitespace(_, _)
SkipWhitespace(toks, k) ==
    IF k < Len(toks) /\ toks[k + 1].ttype = Whitespace
    THEN SkipWhitespace(toks, k + 1)
    ELSE k

\* the non-whitespace tokens among tokens[max(0, i - 5) : i]
prev_tokens(toks, k) ==
    SelectSeq(SubSeq(toks, Max(0, k - LookBack) + 1, k),
              LAMBDA t : t.ttype # Whitespace)

\* the head test at the first non-whitespace token k: found_def and the index
\* after it
HeadDetection(toks, k) ==
    LET ttype == toks[k + 1].ttype
        value == toks[k + 1].value
    IN  IF ttype \in {Keyword, KeywordDeclaration} /\ Lower(value) \in DefKeywords
        THEN [found_def |-> TRUE, i |-> k + 1]
        ELSE IF ttype = Name /\ k > 0
             THEN LET prev == prev_tokens(toks, k)
                  IN  IF Len(prev) >= 1
                      THEN LET last_token == prev[Len(prev)]
                           IN  [found_def |->
                                    \/ last_token.ttype \in
                                         {KeywordType, NameBuiltinType, Keyword}
                                    \/ last_token.value \in ModifierLiterals,
                                i |-> k]
                      ELSE [found_def |-> FALSE, i |-> k]
             ELSE [found_def |-> FALSE, i |-> k]

\* ParamScan that also collects the token that closes the parameter list
RECURSIVE ParamScan_KeepsClosing(_, _, _, _)
ParamScan_KeepsClosing(toks, k, paren_count, param_tokens) ==
    IF k < Len(toks) /\ paren_count > 0
    THEN LET ttype == toks[k + 1].ttype
             value == toks[k + 1].value
             count == IF ttype = Punctuation /\ value = <<"(">>
                      THEN paren_count + 1
                      ELSE IF ttype = Punctuation /\ value = <<")">>
                           THEN paren_count - 1
                           ELSE paren_count
         IN  ParamScan_KeepsClosing(toks, k + 1, count,
                                    Append(param_tokens, toks[k + 1]))
    ELSE [i |-> k, param_tokens |-> param_tokens, paren_count |-> paren_count]

\* the parameter loop: from index k with paren_count open parentheses, the
\* index it stops at and the tokens it collected
RECURSIVE ParamScan(_, _, _, _)
ParamScan(toks, k, paren_count, param_tokens) ==
    IF k < Len(toks) /\ paren_count > 0
    THEN LET ttype == toks[k + 1].ttype
             value == toks[k + 1].value
             count == IF ttype = Punctuation /\ value = <<"(">>
                      THEN paren_count + 1
                      ELSE IF ttype = Punctuation /\ value = <<")">>
                           THEN paren_count - 1
                           ELSE paren_count
         IN  ParamScan(toks, k + 1, count,
                       IF count > 0 THEN Append(param_tokens, toks[k + 1])
                                    ELSE param_tokens)
    ELSE [i |-> k, param_tokens |-> param_tokens, paren_count |-> paren_count]

\* the texts that end a signature
Terminators == { <<":">>, <<"{">>, <<";">>, <<NL>> }

\* the terminator loop: the first index at or after k whose text is ':', '{',
\* ';' or '\n', or len(tokens)
RECURSIVE TerminatorScan(_, _)
TerminatorScan(toks, k) ==
    IF k < Len(toks) /\ toks[k + 1].value \notin Terminators
    THEN TerminatorScan(toks, k + 1)
    ELSE k

\* the loop looking for the opening parenthesis, from index k, and what
\* follows it
RECURSIVE ParenScan(_, _, _, _)
ParenScan(toks, start_idx, k, function_name) ==
    IF k < Len(toks)
    THEN LET ttype == toks[k + 1].ttype
             value == toks[k + 1].value
         IN  IF ttype = Punctuation /\ value = <<"(">>
             THEN LET ps == ParamScan(toks, k + 1, 1, <<>>)
                      parameters ==
                          CollapseSpaces(Strip(Join(
                              [m \in 1..Len(ps.param_tokens) |->
                                   ps.param_tokens[m].value])))
                  IN  [found |-> TRUE, name |-> function_name,
                       parameters |-> parameters,
                       end_idx |-> TerminatorScan(toks, ps.i)]
             ELSE IF ttype # Whitespace
                  THEN NotFound(start_idx)
                  ELSE ParenScan(toks, start_idx, k + 1, function_name)
    ELSE NotFound(start_idx)

\* NameScan with the slip of returning the index reached, not start_idx, when
\* the token after the head is no name
NameScan_Reached(toks, start_idx, k) ==
    LET k2 == SkipWhitespace(toks, k)
    IN  IF k2 >= Len(toks)
        THEN NotFound(k2)
        ELSE IF toks[k2 + 1].ttype \in {Name, NameFunction, NameOther}
             THEN ParenScan(toks, start_idx, k2 + 1, toks[k2 + 1].value)
             ELSE NotFound(k2)

\* the name test at index k, after the head
NameScan(toks, start_idx, k) ==
    LET k2 == SkipWhitespace(toks, k)
    IN  IF k2 >= Len(toks)
        THEN NotFound(start_idx)
        ELSE IF toks[k2 + 1].ttype \in {Name, NameFunction, NameOther}
             THEN ParenScan(toks, start_idx, k2 + 1, toks[k2 + 1].value)
             ELSE NotFound(start_idx)

\* _is_function_definition(tokens, start_idx) with highlight_functions = hf
IsFunctionDefinition(hf, toks, start_idx) ==
    IF ~hf
    THEN NotFound(start_idx)
    ELSE LET k == SkipWhitespace(toks, start_idx)
         IN  IF k >= Len(toks)
             THEN NotFound(start_idx)
             ELSE LET head == HeadDetection(toks, k)
                  IN  IF ~head.found_def
                      THEN NotFound(start_idx)
                      ELSE NameScan(toks, start_idx, head.i)

\* is_function_definition returning start_idx as the end index of a
\* successful scan too
is_function_definition_NoAdvance(toks, start_idx) ==
    [IsFunctionDefinition(self.highlight_functions, toks, start_idx)
         EXCEPT !.end_idx = start_idx]

is_function_definition(toks, start_idx) ==
    IsFunctionDefinition(self.highlight_functions, toks, start_idx)

----------------------------------------------------------------------------
(* MarkdownFormatter._get_markdown_style *)

\* the categories style_map lists with ('*', '*')
ItalicStyled == {"Comment", "Comment.Single", "Comment.Multiline",
                 "Comment.Preproc", "Comment.PreprocFile", "Comment.Special",
                 "Generic.Emph", "Generic.Traceback"}

\* the categories style_map lists with ('**', '**')
BoldStyled == {"Keyword", "Keyword.Constant", "Keyword.Declaration",
               "Keyword.Namespace", "Keyword.Pseudo", "Keyword.Reserved",
               "Keyword.Type", "Generic.Heading", "Generic.Prompt",
               "Generic.Strong", "Generic.Subheading"}

\* the categories style_map lists with ('~~', '~~')
StrikeStyled == {"Error", "Generic.Deleted", "Generic.Error"}

\* the categories style_map lists with ('', '')
PlainStyled ==
    {"Literal.String", "Literal.String.Backtick", "Literal.String.Char",
     "Literal.String.Doc", "Literal.String.Double", "Literal.String.Escape",
     "Literal.String.Heredoc", "Literal.String.Interpol",
     "Literal.String.Other", "Literal.String.Regex",
     "Literal.String.Single", "Literal.String.Symbol", "Name",
     "Name.Attribute", "Name.Builtin", "Name.Builtin.Pseudo", "Name.Class",
     "Name.Constant", "Name.Decorator", "Name.Entity", "Name.Exception",
     "Name.Function", "Name.Function.Magic", "Name.Label", "Name.Namespace",
     "Name.Other", "Name.Property", "Name.Tag", "Name.Variable",
     "Name.Variable.Class", "Name.Variable.Global",
     "Name.Variable.Instance", "Name.Variable.Magic", "Literal.Number",
     "Literal.Number.Bin", "Literal.Number.Float", "Literal.Number.Hex",
     "Literal.Number.Integer", "Literal.Number.Integer.Long",
     "Literal.Number.Oct", "Operator", "Operator.Word", "Punctuation",
     "Generic", "Generic.Inserted", "Generic.Output"}

\* the categories style_map lists
Listed == ItalicStyled \cup BoldStyled \cup StrikeStyled \cup PlainStyled

\* the token categories of pygments.token, and two further sub-categories
\* (Keyword.Control, Name.Builtin.Type) of the kind a lexer may create
Categories ==
    {"Token", "Text", "Escape", "Error", "Other", "Keyword", "Name",
     "Literal", "Operator", "Punctuation", "Comment", "Generic",
     "Text.Whitespace", "Keyword.Constant", "Keyword.Declaration",
     "Keyword.Namespace", "Keyword.Pseudo", "Keyword.Reserved",
     "Keyword.Type", "Keyword.Control", "Name.Attribute", "Name.Builtin",
     "Name.Class", "Name.Constant", "Name.Decorator", "Name.Entity",
     "Name.Exception", "Name.Function", "Name.Property", "Name.Label",
     "Name.Namespace", "Name.Other", "Name.Tag", "Name.Variable",
     "Name.Builtin.Pseudo", "Name.Builtin.Type", "Name.Function.Magic",
     "Name.Variable.Class", "Name.Variable.Global",
     "Name.Variable.Instance", "Name.Variable.Magic", "Literal.Date",
     "Literal.String", "Literal.Number", "Literal.String.Affix",
     "Literal.String.Backtick", "Literal.String.Char",
     "Literal.String.Delimiter", "Literal.String.Doc",
     "Literal.String.Double", "Literal.String.Escape",
     "Literal.String.Heredoc", "Literal.String.Interpol",
     "Literal.String.Other", "Literal.String.Regex",
     "Literal.String.Single", "Literal.String.Symbol", "Literal.Number.Bin",
     "Literal.Number.Float", "Literal.Number.Hex", "Literal.Number.Integer",
     "Literal.Number.Oct", "Literal.Number.Integer.Long", "Operator.Word",
     "Punctuation.Marker", "Comment.Hashbang", "Comment.Multiline",
     "Comment.Preproc", "Comment.PreprocFile", "Comment.Single",
     "Comment.Special", "Generic.Deleted", "Generic.Emph", "Generic.Error",
     "Generic.Heading", "Generic.Inserted", "Generic.Output",
     "Generic.Prompt", "Generic.Strong", "Generic.EmphStrong",
     "Generic.Subheading", "Generic.Traceback"}

\* the parent of a category other than Token
Parent(c) ==
    CASE c \in {"Text", "Escape", "Error", "Other", "Keyword", "Name", "Literal",
           "Operator", "Punctuation", "Comment", "Generic"}
        -> "Token"
      [] c \in {"Text.Whitespace"}
        -> "Text"
      [] c \in {"Keyword.Constant", "Keyword.Declaration", "Keyword.Namespace",
           "Keyword.Pseudo", "Keyword.Reserved", "Keyword.Type",
           "Keyword.Control"}
        -> "Keyword"
      [] c \in {"Name.Attribute", "Name.Builtin", "Name.Class", "Name.Constant",
           "Name.Decorator", "Name.Entity", "Name.Exception",
           "Name.Function", "Name.Property", "Name.Label", "Name.Namespace",
           "Name.Other", "Name.Tag", "Name.Variable"}
        -> "Name"
      [] c \in {"Name.Builtin.Pseudo", "Name.Builtin.Type"}
        -> "Name.Builtin"
      [] c \in {"Name.Function.Magic"}
        -> "Name.Function"
      [] c \in {"Name.Variable.Class", "Name.Variable.Global",
           "Name.Variable.Instance", "Name.Variable.Magic"}
        -> "Name.Variable"
      [] c \in {"Literal.Date", "Literal.String", "Literal.Number"}
        -> "Literal"
      [] c \in {"Literal.String.Affix", "Literal.String.Backtick",
           "Literal.String.Char", "Literal.String.Delimiter",
           "Literal.String.Doc", "Literal.String.Double",
           "Literal.String.Escape", "Literal.String.Heredoc",
           "Literal.String.Interpol", "Literal.String.Other",
           "Literal.String.Regex", "Literal.String.Single",
           "Literal.String.Symbol"}
        -> "Literal.String"
      [] c \in {"Literal.Number.Bin", "Literal.Number.Float",
           "Literal.Number.Hex", "Literal.Number.Integer",
           "Literal.Number.Oct"}
        -> "Literal.Number"
      [] c \in {"Literal.Number.Integer.Long"}
        -> "Literal.Number.Integer"
      [] c \in {"Operator.Word"}
        -> "Operator"
      [] c \in {"Punctuation.Marker"}
        -> "Punctuation"
      [] c \in {"Comment.Hashbang", "Comment.Multiline", "Comment.Preproc",
           "Comment.PreprocFile", "Comment.Single", "Comment.Special"}
        -> "Comment"
      [] c \in {"Generic.Deleted", "Generic.Emph", "Generic.Error",
           "Generic.Heading", "Generic.Inserted", "Generic.Output",
           "Generic.Prompt", "Generic.Strong", "Generic.EmphStrong",
           "Generic.Subheading", "Generic.Traceback"}
        -> "Generic"

\* no call of _get_markdown_style is modelled
NoStyle == [prefix |-> <<>>, suffix |-> <<>>]

\* style_map.get(ttype, ('', '')): every other category, listed or not,
\* gets ('', '')
get_markdown_style(ttype) ==
    IF ~self.inline_styles THEN [prefix |-> <<>>, suffix |-> <<>>]
    ELSE IF ttype \in ItalicStyled
         THEN [prefix |-> <<"*">>, suffix |-> <<"*">>]
    ELSE IF ttype \in BoldStyled
         THEN [prefix |-> <<"*", "*">>, suffix |-> <<"*", "*">>]
    ELSE IF ttype \in StrikeStyled
         THEN [prefix |-> <<"~", "~">>, suffix |-> <<"~", "~">>]
    ELSE [prefix |-> <<>>, suffix |-> <<>>]

\* one element of current_line: the text of a token (or of a piece of it)
\* between the delimiters of its style
StyledPart(ttype, part) ==
    IF self.inline_styles
    THEN LET st == get_markdown_style(ttype)
         IN  [prefix |-> st.prefix, text |-> part, suffix |-> st.suffix]
    ELSE [prefix |-> <<>>, text |-> part, suffix |-> <<>>]

\* current_line after "if part: current_line.append(...)"
AppendPart(parts, ttype, part) ==
    IF part # <<>> THEN Append(parts, StyledPart(ttype, part)) ELSE parts

----------------------------------------------------------------------------
(* what outfile receives: one entry per block or line written *)

Entry(kind) ==
    [kind |-> kind, name |-> <<>>, parameters |-> <<>>, num |-> 0,
     lang |-> "", numbered |-> FALSE, parts |-> <<>>, mark |-> "none",
     nl |-> 0, lines |-> {}]

----------------------------------------------------------------------------
(* MarkdownFormatter._write_line *)

\* how far _write_line looks back and ahead of token_idx
LineWindow == 10

\* the keywords, each followed by a space, that make a function line
LineKeywords ==
    { <<"d", "e", "f", " ">>,
      <<"f", "u", "n", "c", "t", "i", "o", "n", " ">>,
      <<"f", "n", " ">>,
      <<"f", "u", "n", "c", " ">>,
      <<"m", "e", "t", "h", "o", "d", " ">>,
      <<"p", "r", "o", "c", " ">>,
      <<"p", "r", "o", "c", "e", "d", "u", "r", "e", " ">>,
      <<"s", "u", "b", " ">> }

\* the loop that collects line_tokens: from index k up to index last, with
\* temp_line_num - line_number = ahead
RECURSIVE LineTokens(_, _, _, _, _)
LineTokens(toks, k, last, ahead, line_tokens) ==
    IF k > last THEN line_tokens
    ELSE LET ttype == toks[k + 1].ttype
             value == toks[k + 1].value
         IN  IF HasChar(value, NL)
             THEN LET collected ==
                          IF ahead = 0
                          THEN Append(line_tokens,
                                      [ttype |-> ttype,
                                       value |-> Split(value, NL)[1]])
                          ELSE line_tokens
                  IN  \* temp_line_num += value.count('\n');
                      \* if temp_line_num > line_number: break
                      collected
             ELSE LineTokens(toks, k + 1, last, ahead,
                             IF ahead = 0
                             THEN Append(line_tokens, toks[k + 1])
                             ELSE line_tokens)

\* line_tokens of _write_line(outfile, line_parts, line_number, tokens, idx)
line_tokens_of(toks, idx) ==
    LineTokens(toks, Max(0, idx - LineWindow),
               Min(Len(toks) - 1, idx + LineWindow), 0, <<>>)

\* is_function_line; idx = -1 stands for the call without tokens and token_idx
is_function_line(toks, idx) ==
    /\ self.highlight_functions
    /\ self.function_style = "emphasis"
    /\ toks # <<>>
    /\ idx >= 0
    /\ LET lt == line_tokens_of(toks, idx)
           line_text == Strip(Join([m \in 1..Len(lt) |-> lt[m].value]))
       IN  \E keyword \in LineKeywords : Contains(line_text, keyword)

\* function_name of a function line: the first identifier-like Name token
function_name_of(toks, idx) ==
    LET lt == line_tokens_of(toks, idx)
        named == {m \in 1..Len(lt) :
                      /\ lt[m].ttype \in {NameFunction, Name}
                      /\ IsIdentifier(lt[m].value)}
    IN  IF named = {} THEN <<>>
        ELSE lt[CHOOSE m \in named : \A n \in named : m <= n].value

\* the entry _write_line writes; nl is the number of newline characters of
\* the token stream consumed before the line's content
write_line(line_parts, number, toks, idx, nl) ==
    LET fl == is_function_line(toks, idx)
    IN  [Entry("line") EXCEPT
            !.parts = line_parts,
            !.num = number,
            !.numbered = self.linenos,
            !.nl = nl,
            !.name = IF fl THEN function_name_of(toks, idx) ELSE <<>>,
            !.mark = IF fl /\ self.function_style = "emphasis" THEN "function"
                     ELSE IF number \in self.hl_lines THEN "highlighted"
                     ELSE "none"]

----------------------------------------------------------------------------
(* MarkdownFormatter.format_unencoded: the discovery pre-pass *)

\* tokens[a:b]
Slice(toks, a, b) == SubSeq(toks, a + 1, b)

\* ''.join(token[1] for token in toks)
TextOf(toks) == Join([m \in 1..Len(toks) |-> toks[m].value])

\* line_num of a signature found by the scan started at index k
SignatureLineNum(toks, k) == 1 + Count(TextOf(Slice(toks, 0, k)), NL)

\* the Signature Record appended for the successful scan r started at k
SignatureRecord(toks, k, r) ==
    [name |-> r.name,
     parameters |-> r.parameters,
     start_idx |-> k,
     end_idx |-> r.end_idx,
     line_num |-> SignatureLineNum(toks, k),
     signature |-> TextOf(Slice(toks, k, r.end_idx))]

\* NextScanIndex with the slip "i += 1" on both branches
NextScanIndex_Step(k, r) == k + 1

\* the index the pre-pass scans next, after the scan r started at k
NextScanIndex(k, r) == IF r.found THEN r.end_idx ELSE k + 1

----------------------------------------------------------------------------
(* MarkdownFormatter.format_unencoded: the blocks around the code *)

\* the document header, written when the option full is set
HeaderEntries ==
    IF self.full THEN <<Entry("title"), Entry("generated_by")>> ELSE <<>>

FunctionItems(kind, sigs) ==
    [m \in 1..Len(sigs) |->
        [Entry(kind) EXCEPT !.name = sigs[m].name,
                            !.parameters = sigs[m].parameters,
                            !.num = sigs[m].line_num]]

\* SummaryEntries without the test that signatures were found
SummaryEntries_Always(sigs) ==
    IF self.function_style = "callout"
    THEN <<Entry("summary_head")>> \o FunctionItems("summary_item", sigs)
            \o <<Entry("summary_end")>>
    ELSE <<>>

\* '## Functions Found' and its list, before the first fence
SummaryEntries(sigs) ==
    IF sigs # <<>> /\ self.function_style = "callout"
    THEN <<Entry("summary_head")>> \o FunctionItems("summary_item", sigs)
            \o <<Entry("summary_end")>>
    ELSE <<>>

\* outfile.write(f'{fence}{self.lang}\n'), or f'{fence}\n' without a lang
FenceOpen == [Entry("fence_open") EXCEPT !.lang = self.lang]

\* outfile.write(f'{fence}\n') and, before a block, f'{fence}\n\n'
FenceClose == Entry("fence_close")

\* '<!-- Highlighted lines: ... -->', written when hl_lines is not empty
HighlightEntries ==
    IF self.hl_lines # {}
    THEN <<[Entry("highlighted_lines") EXCEPT !.lines = self.hl_lines]>>
    ELSE <<>>

\* '## Functions' and its list, after the last fence
FunctionListEntries(sigs) ==
    IF sigs # <<>> /\ self.function_style = "emphasis"
    THEN <<Entry("functions_head")>> \o FunctionItems("functions_item", sigs)
            \o <<Entry("functions_end")>>
    ELSE <<>>

----------------------------------------------------------------------------
(* MarkdownFormatter.format_unencoded: the emission loop *)

\* whether some record's start_idx is idx ("if current_func")
HasCurrentFunc(sigs, idx) == \E m \in 1..Len(sigs) : sigs[m].start_idx = idx

\* CurrentFunc taking the last record found, whatever its start_idx
CurrentFunc_Last(sigs, idx) == sigs[Len(sigs)]

\* current_func: the first record whose start_idx is idx
CurrentFunc(sigs, idx) ==
    sigs[CHOOSE m \in 1..Len(sigs) :
            /\ sigs[m].start_idx = idx
            /\ \A n \in 1..(m - 1) : sigs[n].start_idx # idx]

\* if current_line: self._write_line(outfile, current_line, line_number)
FlushEntries(cur, number, nl) ==
    IF cur # <<>> THEN <<write_line(cur, number, <<>>, -1, nl)>> ELSE <<>>

\* the block written at the start of the signature func
BlockEntry(func, number) ==
    IF self.function_style = "callout"
    THEN [Entry("callout") EXCEPT !.name = func.name, !.num = number]
    ELSE [Entry("heading") EXCEPT !.name = func.name]

\* SpliceEntries without the write that reopens the fence
SpliceEntries_NoReopen(func, cur, number, nl) ==
    FlushEntries(cur, number, nl) \o <<FenceClose, BlockEntry(func, number)>>

\* what is written when token_idx is the start_idx of func, for the styles
\* callout and heading
SpliceEntries(func, cur, number, nl) ==
    FlushEntries(cur, number, nl)
        \o <<FenceClose, BlockEntry(func, number), FenceOpen>>

\* the lines a token holding newlines completes: parts = value.split('\n'),
\* the first part joins current_line, each middle part is a line of its own
NewlineEntries(cur, number, ttype, parts, toks, idx, nl) ==
    [m \in 1..(Len(parts) - 1) |->
        write_line(AppendPart(IF m = 1 THEN cur ELSE <<>>, ttype, parts[m]),
                   number + m - 1, toks, idx, nl + m - 1)]

\* the result of one pass of the loop body over the token at idx, from the
\* "Handle line breaks" test on
EmitToken(cur, number, toks, idx, nl) ==
    LET ttype == toks[idx + 1].ttype
        value == toks[idx + 1].value
    IN  IF HasChar(value, NL)
        THEN LET parts == Split(value, NL)
             IN  [written |-> NewlineEntries(cur, number, ttype, parts, toks,
                                             idx, nl),
                  current_line |-> AppendPart(<<>>, ttype, parts[Len(parts)]),
                  line_number |-> number + Len(parts) - 1]
        ELSE [written |-> <<>>,
              current_line |-> AppendPart(cur, ttype, value),
              line_number |-> number]

\* what is written after the loop
FinishEntries(cur, number, toks, sigs, nl) ==
    (IF cur # <<>>
     THEN <<write_line(cur, number, toks, Len(toks) - 1, nl)>> ELSE <<>>)
        \o <<FenceClose>> \o HighlightEntries \o FunctionListEntries(sigs)

----------------------------------------------------------------------------
(* the inputs: token streams and configurations *)

tDef == [ttype |-> Keyword, value |-> <<"d", "e", "f">>]
tSpace == [ttype |-> Whitespace, value |-> <<" ">>]
tNewline == [ttype |-> Whitespace, value |-> <<NL>>]
tIndent == [ttype |-> Whitespace, value |-> <<NL, " ">>]
tName == [ttype |-> Name, value |-> <<"f">>]
tOpen == [ttype |-> Punctuation, value |-> <<"(">>]
tClose == [ttype |-> Punctuation, value |-> <<")">>]
tColon == [ttype |-> Punctuation, value |-> <<":">>]
tType == [ttype |-> KeywordType, value |-> <<"i", "n", "t">>]
tReturn == [ttype |-> Keyword, value |-> <<"r", "e", "t", "u", "r", "n">>]
tText == [ttype |-> String, value |-> <<"a", NL, "b">>]

\* a rendered stream is made of at most MaxFragments fragments
MaxFragments == 3

\* the fragments: single tokens, and a whole declaration head
Fragments ==
    { <<tDef>>, <<tSpace>>, <<tNewline>>, <<tName>>, <<tText>>,
      <<tDef, tSpace, tName, tOpen, tClose>> }

RECURSIVE StreamsOf(_)
StreamsOf(n) ==
    IF n = 0 THEN {<<>>}
    ELSE LET shorter == StreamsOf(n - 1)
         IN  shorter \cup {st \o fr : st \in shorter, fr \in Fragments}

Streams == StreamsOf(MaxFragments)

\* the fence characters; the grave accent cannot be written in a string here
Backtick == "GRAVE"
Tilde == "~"

\* the configurations after __init__
Configs ==
    [lang : {"python"},
     linenos : BOOLEAN,
     linenostart : {1},
     hl_lines : {{}, {2}},
     inline_styles : BOOLEAN,
     fence_char : {Backtick},
     fence_count : {3},
     highlight_functions : BOOLEAN,
     function_style : {"callout", "emphasis", "heading"},
     full : BOOLEAN]

----------------------------------------------------------------------------
(* MarkdownFormatter.__init__: the options fence_char, fence_count and
   function_style *)

\* an option as given to the constructor: not given, an integer, or a text
Absent == [given |-> FALSE, isint |-> FALSE, num |-> 0, text |-> ""]
IntOpt(n) == [given |-> TRUE, isint |-> TRUE, num |-> n, text |-> ""]
TextOpt(t) == [given |-> TRUE, isint |-> FALSE, num |-> 0, text |-> t]

\* no constructor call is modelled
NoOptions == <<>>

\* no second call is modelled
NoCall == [pc |-> "none"]

\* get_int_opt(options, optname, default) of pygments.util: the integer
\* given, and the default for a value that is not given or not an integer
get_int_opt(opt, default) ==
    IF opt.given /\ opt.isint THEN opt.num ELSE default

\* options.get(optname, default)
options_get(opt, default) == IF opt.given THEN opt ELSE TextOpt(default)

\* self.fence_char
fence_char_of(opt) ==
    LET v == options_get(opt, Backtick)
    IN  IF v.isint \/ v.text \notin {Backtick, Tilde} THEN Backtick
        ELSE v.text

\* self.fence_count without the test for a count below 3
fence_count_of_Unchecked(opt) == get_int_opt(opt, 3)

\* self.fence_count
fence_count_of(opt) ==
    LET n == get_int_opt(opt, 3)
    IN  IF n < 3 THEN 3 ELSE n

\* self.function_style
function_style_of(opt) ==
    LET v == options_get(opt, "emphasis")
    IN  IF v.isint \/ v.text \notin {"callout", "emphasis", "heading"}
        THEN "emphasis"
        ELSE v.text

\* the fields of the formatter after __init__ with the options opts, the other options
\* left at their defaults
init(opts) ==
    [lang |-> "",
     linenos |-> FALSE,
     linenostart |-> 1,
     hl_lines |-> {},
     inline_styles |-> FALSE,
     fence_char |-> fence_char_of(opts.fence_char),
     fence_count |-> fence_count_of(opts.fence_count),
     highlight_functions |-> TRUE,
     function_style |-> function_style_of(opts.function_style),
     full |-> FALSE]

----------------------------------------------------------------------------
(* one call of format_unencoded *)

NoScan == NotFound(0)

\* the state before the call, for a configuration of configs and a stream
\* of streams
InitWith(configs, streams) ==
    /\ self \in configs
    /\ tokens \in streams
    /\ pc = "start"
    /\ i = 0
    /\ function_signatures = <<>>
    /\ current_line = <<>>
    /\ line_number = 0
    /\ token_idx = 0
    /\ outfile = <<>>
    /\ nl_consumed = 0
    /\ scan_start = 0
    /\ scan_result = NoScan
    /\ line = <<>>
    /\ java_result = FALSE
    /\ options = NoOptions
    /\ other = NoCall
    /\ category = Name
    /\ style = NoStyle

Init == InitWith(Configs, Streams)

\* tokens = list(tokensource), the header, function_signatures = []
Begin ==
    /\ pc = "start"
    /\ outfile' = outfile \o HeaderEntries
    /\ function_signatures' = <<>>
    /\ i' = 0
    /\ pc' = IF self.highlight_functions THEN "prepass" ELSE "open"
    /\ UNCHANGED <<self, tokens, current_line, line_number, token_idx,
                   nl_consumed>>
    /\ UNCHANGED <<scan_vars, java_vars, init_vars, style_vars>>

\* one pass of "while i < len(tokens)" of the pre-pass
PrepassStep ==
    /\ pc = "prepass"
    /\ i < Len(tokens)
    /\ LET r == is_function_definition(tokens, i)
       IN  /\ function_signatures' =
                 IF r.found
                 THEN Append(function_signatures, SignatureRecord(tokens, i, r))
                 ELSE function_signatures
           /\ i' = NextScanIndex(i, r)
    /\ UNCHANGED <<self, tokens, pc, current_line, line_number, token_idx,
                   outfile, nl_consumed>>
    /\ UNCHANGED <<scan_vars, java_vars, init_vars, style_vars>>

\* after the pre-pass: the summary, the first fence, the loop variables
OpenBlock ==
    /\ \/ pc = "open"
       \/ pc = "prepass" /\ i >= Len(tokens)
    /\ outfile' = outfile \o SummaryEntries(function_signatures)
                          \o <<FenceOpen>>
    /\ current_line' = <<>>
    /\ line_number' = self.linenostart
    /\ token_idx' = 0
    /\ pc' = "emit"
    /\ UNCHANGED <<self, tokens, i, function_signatures, nl_consumed>>
    /\ UNCHANGED <<scan_vars, java_vars, init_vars, style_vars>>

\* a pass of the emission loop at the start of a signature, for the styles
\* callout and heading
Splice ==
    /\ pc = "emit"
    /\ token_idx < Len(tokens)
    /\ HasCurrentFunc(function_signatures, token_idx)
    /\ self.function_style # "emphasis"
    /\ LET func == CurrentFunc(function_signatures, token_idx)
       IN  /\ outfile' = outfile \o SpliceEntries(func, current_line,
                                                  line_number, nl_consumed)
           /\ current_line' = <<>>
           /\ token_idx' = func.end_idx
           /\ nl_consumed' = nl_consumed
                 + Count(TextOf(Slice(tokens, token_idx, func.end_idx)), NL)
    /\ UNCHANGED <<self, tokens, pc, i, function_signatures, line_number>>
    /\ UNCHANGED <<scan_vars, java_vars, init_vars, style_vars>>

\* any other pass of the emission loop
Emit ==
    /\ pc = "emit"
    /\ token_idx < Len(tokens)
    /\ ~(HasCurrentFunc(function_signatures, token_idx)
            /\ self.function_style # "emphasis")
    /\ LET e == EmitToken(current_line, line_number, tokens, token_idx,
                          nl_consumed)
       IN  /\ outfile' = outfile \o e.written
           /\ current_line' = e.current_line
           /\ line_number' = e.line_number
    /\ nl_consumed' = nl_consumed + Count(tokens[token_idx + 1].value, NL)
    /\ token_idx' = token_idx + 1
    /\ UNCHANGED <<self, tokens, pc, i, function_signatures>>
    /\ UNCHANGED <<scan_vars, java_vars, init_vars, style_vars>>

\* after the loop: the last line, the closing fence, the trailers
Finish ==
    /\ pc = "emit"
    /\ token_idx >= Len(tokens)
    /\ outfile' = outfile \o FinishEntries(current_line, line_number, tokens,
                                           function_signatures, nl_consumed)
    /\ pc' = "done"
    /\ UNCHANGED <<self, tokens, i, function_signatures, current_line,
                   line_number, token_idx, nl_consumed>>
    /\ UNCHANGED <<scan_vars, java_vars, init_vars, style_vars>>

Next == Begin \/ PrepassStep \/ OpenBlock \/ Splice \/ Emit \/ Finish

Spec == Init /\ [][Next]_vars

----------------------------------------------------------------------------
(* properties of format_unencoded *)

\* the entries of out of the kinds in kinds
EntriesOf(out, kinds) == SelectSeq(out, LAMBDA e : e.kind \in kinds)

\* the code lines written
LinesWritten == EntriesOf(outfile, {"line"})

\* the text of a written line without number prefix, annotation and style
\* delimiters
LineText(e) == Join([m \in 1..Len(e.parts) |-> e.parts[m].text])

\* the text of all written lines, each ended by its line break
RenderedText ==
    Join([m \in 1..Len(LinesWritten) |-> LineText(LinesWritten[m]) \o <<NL>>])

\* the text of the token stream, with the line break of its last line
SourceText ==
    LET src == TextOf(tokens)
    IN  IF src = <<>> \/ src[Len(src)] = NL THEN src ELSE src \o <<NL>>

\* C1: when format_unencoded has finished, the text of the lines it wrote,
\* with prefixes, annotations, style delimiters and inserted blocks removed,
\* is the concatenation of the token texts, line break for line break.
C1_ConcatenationFidelity == pc = "done" => RenderedText = SourceText

\* the number of fences open after the first n entries of out
FenceDepth(out, n) ==
    Len(EntriesOf(SubSeq(out, 1, n), {"fence_open"}))
        - Len(EntriesOf(SubSeq(out, 1, n), {"fence_close"}))

\* C2: for the styles callout and heading with highlight_functions on, at
\* every point of the output the number of fence opens minus the number of
\* fence closes is 0 or 1, and it is 0 when format_unencoded has finished.
C2_FenceIntegrity ==
    (self.function_style \in {"callout", "heading"} /\ self.highlight_functions)
    => /\ \A n \in 0..Len(outfile) : FenceDepth(outfile, n) \in {0, 1}
       /\ pc = "done" => FenceDepth(outfile, Len(outfile)) = 0

\* a finished callout render that spliced two signatures, the first of them
\* starting at index 0
C2_Witness ==
    /\ pc = "done"
    /\ self.function_style = "callout"
    /\ self.highlight_functions
    /\ Len(EntriesOf(outfile, {"callout"})) = 2
    /\ Len(EntriesOf(outfile, {"fence_open"})) = 3
    /\ function_signatures[1].start_idx = 0

\* C3: the Signature Records of a pre-pass are in strictly ascending order
\* of start_idx and the ranges [start_idx, end_idx) of consecutive records
\* do not overlap.
C3_NonOverlap ==
    \A m \in 1..Len(function_signatures) :
        \A n \in 1..Len(function_signatures) :
            m < n =>
                /\ function_signatures[m].start_idx
                       < function_signatures[n].start_idx
                /\ function_signatures[m].end_idx
                       <= function_signatures[n].start_idx

\* a pre-pass that has recorded two signatures
C3_Witness ==
    /\ pc = "prepass"
    /\ Len(function_signatures) = 2
    /\ function_signatures[1].end_idx <= function_signatures[2].start_idx

\* C4: the written lines are numbered linenostart, linenostart + 1, ...: the
\* number of a line is linenostart plus the number of newline characters
\* consumed before it, and no number is used twice or skipped.
C4_LineNumbering ==
    /\ \A m \in 1..Len(LinesWritten) :
           LinesWritten[m].num = self.linenostart + LinesWritten[m].nl
    /\ \A m \in 1..Len(LinesWritten) :
           LinesWritten[m].num = self.linenostart + m - 1

\* the scanner reports no declaration at any index of the stream
NoDeclaration ==
    \A k \in 0..(Len(tokens) - 1) : ~is_function_definition(tokens, k).found

\* C5: on a stream in which the scanner reports no declaration, no summary,
\* call-out, heading or function list is written, and the finished output
\* is one opening fence, code lines and one closing fence (with the optional
\* header and highlighted-lines comment).
C5_NoSignatureInput ==
    NoDeclaration
    => /\ EntriesOf(outfile, {"summary_head", "summary_item", "summary_end",
                              "callout", "heading", "functions_head",
                              "functions_item", "functions_end"}) = <<>>
       /\ pc = "done"
          => /\ Len(EntriesOf(outfile, {"fence_open"})) = 1
             /\ Len(EntriesOf(outfile, {"fence_close"})) = 1
             /\ \A m \in 1..Len(outfile) :
                    outfile[m].kind \in {"title", "generated_by", "fence_open",
                                         "line", "fence_close",
                                         "highlighted_lines"}

\* a finished callout render, highlight_functions on, of a stream with code
\* lines and no declaration
C5_Witness ==
    /\ pc = "done"
    /\ NoDeclaration
    /\ self.highlight_functions
    /\ self.function_style = "callout"
    /\ Len(LinesWritten) >= 2

\* C6: line_num of every Signature Record is 1 plus the number of newline
\* characters before the declaration's first non-whitespace token.
C6_SignatureLineNumber ==
    \A m \in 1..Len(function_signatures) :
        function_signatures[m].line_num =
            1 + Count(TextOf(Slice(tokens, 0,
                          SkipWhitespace(tokens,
                              function_signatures[m].start_idx))), NL)

----------------------------------------------------------------------------
(* direct calls of _is_function_definition *)

\* a scanned sequence has at most MaxScanLen tokens
MaxScanLen == 4

ScanAlphabet ==
    {tDef, tSpace, tNewline, tIndent, tName, tOpen, tClose, tColon, tType,
     tReturn}

RECURSIVE ScanStreamsOf(_)
ScanStreamsOf(n) ==
    IF n = 0 THEN {<<>>}
    ELSE LET shorter == ScanStreamsOf(n - 1)
         IN  shorter \cup {Append(st, t) : st \in shorter, t \in ScanAlphabet}

ScanStreams == ScanStreamsOf(MaxScanLen)

\* highlight_functions on or off, the other fields at their defaults
ScanConfigs ==
    {c \in Configs : /\ c.function_style = "emphasis"
                     /\ ~c.linenos /\ ~c.inline_styles /\ c.hl_lines = {}
                     /\ ~c.full}

InitScan == InitWith(ScanConfigs, ScanStreams)

\* self._is_function_definition(tokens, k)
Scan ==
    /\ pc \in {"start", "scanned"}
    /\ \E k \in 0..Len(tokens) :
           /\ scan_start' = k
           /\ scan_result' = is_function_definition(tokens, k)
    /\ pc' = "scanned"
    /\ UNCHANGED <<self, tokens, i, function_signatures, current_line,
                   line_number, token_idx, outfile, nl_consumed>>
    /\ UNCHANGED <<java_vars, init_vars, style_vars>>

NextScan == Scan

SpecScan == InitScan /\ [][NextScan]_vars

\* C7: whenever _is_function_definition returns found = False, it returns
\* the start index it was given as end index, and None as name and
\* parameters.
C7_FailureContract ==
    (pc = "scanned" /\ ~scan_result.found)
    => /\ scan_result.end_idx = scan_start
       /\ scan_result.name = None
       /\ scan_result.parameters = None

\* a failed scan that had moved past whitespace and a head before it failed
C7_Witness ==
    /\ pc = "scanned"
    /\ ~scan_result.found
    /\ self.highlight_functions
    /\ scan_start < Len(tokens)
    /\ tokens[scan_start + 1].ttype = Whitespace
    /\ LET k == SkipWhitespace(tokens, scan_start)
       IN  k < Len(tokens) /\ HeadDetection(tokens, k).found_def

\* the scan started at k finds a head and a name and the stream ends before
\* the opening parenthesis, or before the parenthesis that matches it
EndsMidSignature(toks, k) ==
    LET h == SkipWhitespace(toks, k)
    IN  /\ h < Len(toks)
        /\ HeadDetection(toks, h).found_def
        /\ LET n == SkipWhitespace(toks, HeadDetection(toks, h).i)
           IN  /\ n < Len(toks)
               /\ toks[n + 1].ttype \in {Name, NameFunction, NameOther}
               /\ LET p == SkipWhitespace(toks, n + 1)
                  IN  \/ p >= Len(toks)
                      \/ /\ toks[p + 1] = tOpen
                         /\ ParamScan(toks, p + 1, 1, <<>>).paren_count > 0

\* the most recent non-whitespace token before index p is a type-category
\* token or has the text of a modifier or primitive type
TypePrefixed(toks, p) ==
    \E j \in 0..(p - 1) :
        /\ toks[j + 1].ttype # Whitespace
        /\ \A m \in (j + 1)..(p - 1) : toks[m + 1].ttype = Whitespace
        /\ \/ toks[j + 1].ttype \in {KeywordType, NameBuiltinType}
           \/ toks[j + 1].value \in ModifierLiterals

\* C18: when the first non-whitespace token at or after the start index is a
\* plain Name token that is no introducer keyword, the scan goes on to name
\* acquisition exactly when the most recent non-whitespace token before it is
\* a type-category token or has a text of the modifier/primitive list; after
\* any other token, such as the jump keyword return, the scan fails.
C18_TypePrefixedHead ==
    (pc = "scanned" /\ self.highlight_functions)
    => LET p == SkipWhitespace(tokens, scan_start)
       IN  (/\ p < Len(tokens)
            /\ tokens[p + 1].ttype = Name
            /\ Lower(tokens[p + 1].value) \notin DefKeywords)
           => /\ HeadDetection(tokens, p).found_def
                    <=> TypePrefixed(tokens, p)
              /\ ~TypePrefixed(tokens, p) => ~scan_result.found

\* C8: when the stream ends mid-signature, _is_function_definition returns
\* not-found with the start index as end index.
C8_StreamExhaustion ==
    (pc = "scanned" /\ self.highlight_functions
        /\ EndsMidSignature(tokens, scan_start))
    => /\ ~scan_result.found
       /\ scan_result.end_idx = scan_start

----------------------------------------------------------------------------
(* JavaChecker.is_java_method_start: the regular expression *)

(* A pattern is matched from a set of positions P of the line s (a position
   is the number of characters already matched) and gives the set of
   positions at which a match of it can end.  The line matches the whole
   expression when Len(s) is one of the end positions reached from 0. *)

\* the literal w
Lit(s, P, w) ==
    {p + Len(w) :
        p \in {q \in P : /\ q + Len(w) <= Len(s)
                         /\ SubSeq(s, q + 1, q + Len(w)) = w}}

\* C*, for a set of characters C
StarOf(s, P, C) ==
    {q \in 0..Len(s) :
        \E p \in P : p <= q /\ \A k \in (p + 1)..q : s[k] \in C}

\* C+
PlusOf(s, P, C) ==
    {q \in 0..Len(s) :
        \E p \in P : p < q /\ \A k \in (p + 1)..q : s[k] \in C}

\* one character of C
OneOf(s, P, C) == {p + 1 : p \in {q \in P : q < Len(s) /\ s[q + 1] \in C}}

\* [^)]*
StarExcept(s, P, c) ==
    {q \in 0..Len(s) :
        \E p \in P : p <= q /\ \A k \in (p + 1)..q : s[k] # c}

\* \w
WordChars == Letters \cup Digits \cup {"_"}

\* (?:@\w+(?:\([^)]*\))?\s+), once
AnnotationOnce(s, P) ==
    LET named == PlusOf(s, Lit(s, P, <<"@">>), WordChars)
        args == Lit(s, StarExcept(s, Lit(s, named, <<"(">>), ")"), <<")">>)
    IN  PlusOf(s, named \cup args, SpaceChars)

\* annotations_pattern
RECURSIVE annotations_pattern(_, _)
annotations_pattern(s, P) ==
    LET Q == P \cup AnnotationOnce(s, P)
    IN  IF Q = P THEN P ELSE annotations_pattern(s, Q)

\* the alternatives of modifiers_pattern
ModifierWords ==
    { <<"p", "u", "b", "l", "i", "c">>,
      <<"p", "r", "i", "v", "a", "t", "e">>,
      <<"p", "r", "o", "t", "e", "c", "t", "e", "d">>,
      <<"s", "t", "a", "t", "i", "c">>,
      <<"f", "i", "n", "a", "l">>,
      <<"a", "b", "s", "t", "r", "a", "c", "t">>,
      <<"s", "y", "n", "c", "h", "r", "o", "n", "i", "z", "e", "d">>,
      <<"n", "a", "t", "i", "v", "e">>,
      <<"s", "t", "r", "i", "c", "t", "f", "p">> }

\* modifiers_pattern, keeping with each end position the modifiers matched on
\* the way: M is a set of [pos, mods]
ModifierOnce(s, M) ==
    UNION {{[pos |-> q, mods |-> m[1].mods \cup {m[2]}] :
               q \in PlusOf(s, Lit(s, {m[1].pos}, m[2]), SpaceChars)} :
           m \in M \X ModifierWords}

RECURSIVE modifiers_pattern(_, _)
modifiers_pattern(s, M) ==
    LET Q == M \cup ModifierOnce(s, M)
    IN  IF Q = M THEN M ELSE modifiers_pattern(s, Q)

\* [\w\s,<>?&extends]
GenericChars == WordChars \cup SpaceChars \cup {",", "<", ">", "?", "&"}

\* method_generics_pattern
method_generics_pattern(s, P) ==
    LET open == StarOf(s, Lit(s, P, <<"<">>), SpaceChars)
        body == StarOf(s, PlusOf(s, open, GenericChars), SpaceChars)
    IN  P \cup PlusOf(s, Lit(s, body, <<">">>), SpaceChars)

\* type_name_start_char
TypeNameStartChars == Letters \cup {"_", "$"}

\* type_name_chars
TypeNameChars == WordChars \cup {"$", ".", "<", ">", "[", "]"}

\* return_type_pattern
return_type_pattern(s, P) ==
    Lit(s, P, <<"v", "o", "i", "d">>)
        \cup StarOf(s, OneOf(s, P, TypeNameStartChars), TypeNameChars)

\* method_name_pattern
method_name_pattern(s, P) ==
    StarOf(s, OneOf(s, P, TypeNameStartChars), WordChars)

\* parameters_pattern
parameters_pattern(s, P) ==
    LET open == StarOf(s, Lit(s, P, <<"(">>), SpaceChars)
    IN  Lit(s, StarOf(s, StarExcept(s, open, ")"), SpaceChars), <<")">>)

\* [\w\s,.<>\[\]]
ThrowsChars == WordChars \cup SpaceChars \cup {",", ".", "<", ">", "[", "]"}

\* throws_pattern
throws_pattern(s, P) ==
    LET kw == Lit(s, StarOf(s, P, SpaceChars),
                  <<"t", "h", "r", "o", "w", "s">>)
    IN  P \cup PlusOf(s, PlusOf(s, kw, SpaceChars), ThrowsChars)

\* \s*(\{?|;?)\s*$
ending_pattern(s, P) ==
    LET sp == StarOf(s, P, SpaceChars)
    IN  StarOf(s, sp \cup Lit(s, sp, <<"{">>) \cup Lit(s, sp, <<";">>),
               SpaceChars)

\* the expression from the return type on, matched from position p
SignatureMatches(s, p) ==
    LET rtype == PlusOf(s, return_type_pattern(s, {p}), SpaceChars)
        mname == StarOf(s, method_name_pattern(s, rtype), SpaceChars)
        tail == throws_pattern(s, parameters_pattern(s, mname))
    IN  Len(s) \in ending_pattern(s, tail)

\* the ways to match the annotations, the modifiers and the generics that
\* leave a match of the rest: each with the modifiers matched
Matchings(s) ==
    LET start == annotations_pattern(s, StarOf(s, {0}, SpaceChars))
        mods == modifiers_pattern(s, {[pos |-> p, mods |-> {}] : p \in start})
    IN  {m \in mods :
            \E p \in method_generics_pattern(s, {m.pos}) :
                SignatureMatches(s, p)}

\* java_method_regex.match(line)
java_method_regex_match(s) == Matchings(s) # {}

\* the modifiers of a line that matches the expression
ModifiersOf(s) == UNION {m.mods : m \in Matchings(s)}

----------------------------------------------------------------------------
(* JavaChecker.is_java_method_start *)

\* the comment markers of step 1
comment_prefixes ==
    { <<"/", "/">>,
      <<"/", "*">>,
      <<"*">> }

non_method_keywords_prefix ==
    { <<"c", "l", "a", "s", "s", " ">>,
      <<"i", "n", "t", "e", "r", "f", "a", "c", "e", " ">>,
      <<"e", "n", "u", "m", " ">>,
      <<"i", "m", "p", "o", "r", "t", " ">>,
      <<"p", "a", "c", "k", "a", "g", "e", " ">> }

statement_keywords ==
    { <<"i", "f", " ">>,
      <<"i", "f", "(">>,
      <<"f", "o", "r", " ">>,
      <<"f", "o", "r", "(">>,
      <<"w", "h", "i", "l", "e", " ">>,
      <<"w", "h", "i", "l", "e", "(">>,
      <<"s", "w", "i", "t", "c", "h", " ">>,
      <<"s", "w", "i", "t", "c", "h", "(">>,
      <<"t", "r", "y", " ">>,
      <<"t", "r", "y", "{">>,
      <<"c", "a", "t", "c", "h", " ">>,
      <<"c", "a", "t", "c", "h", "(">>,
      <<"f", "i", "n", "a", "l", "l", "y", " ">>,
      <<"f", "i", "n", "a", "l", "l", "y", "{">>,
      <<"r", "e", "t", "u", "r", "n", " ">>,
      <<"t", "h", "r", "o", "w", " ">>,
      <<"n", "e", "w", " ">>,
      <<"s", "u", "p", "e", "r", "(">>,
      <<"t", "h", "i", "s", "(">> }

\* line.split('(', 1)[0]
signature_before_params(s) == Split(s, "(")[1]

\* the result for a line that matches the expression
MatchedResult(s) ==
    LET is_abstract ==
            Contains(signature_before_params(s),
                     <<"a", "b", "s", "t", "r", "a", "c", "t", " ">>)
        is_native ==
            Contains(signature_before_params(s),
                     <<"n", "a", "t", "i", "v", "e", " ">>)
        ends_with_brace == EndsWith(RStrip(s), <<"{">>)
        ends_with_semicolon == EndsWith(RStrip(s), <<";">>)
    IN  IF is_abstract THEN ~ends_with_brace
        ELSE IF is_native THEN ends_with_semicolon /\ ~ends_with_brace
        ELSE IF ends_with_brace THEN TRUE
        ELSE IF ends_with_semicolon THEN TRUE
        ELSE IF ~ends_with_brace /\ ~ends_with_semicolon THEN TRUE
        ELSE FALSE

\* StatementRejected that tests the keyword without the character after it
StatementRejected_PrefixOnly(s) ==
    \E kw \in statement_keywords :
        /\ StartsWith(s, SubSeq(kw, 1, Len(kw) - 1))
        /\ \/ EndsWith(kw, <<"(">>)
           \/ EndsWith(kw, <<"{">>)
           \/ HasChar(kw, " ")

\* the statement-keyword fast path: the line starts with a keyword of the
\* list that ends in '(' or '{' or holds a space
StatementRejected(s) ==
    \E kw \in statement_keywords :
        /\ StartsWith(s, kw)
        /\ \/ EndsWith(kw, <<"(">>)
           \/ EndsWith(kw, <<"{">>)
           \/ HasChar(kw, " ")

\* is_java_method_start with a field check that accepts an assignment
is_java_method_start_FieldAccepted(raw) ==
    LET s == Strip(raw)
    IN  IF s = <<>> \/ \E c \in comment_prefixes : StartsWith(s, c)
        THEN FALSE
        ELSE IF \E kw \in non_method_keywords_prefix : StartsWith(s, kw)
        THEN FALSE
        ELSE IF StatementRejected(s)
        THEN FALSE
        ELSE IF java_method_regex_match(s)
        THEN MatchedResult(s)
        ELSE HasChar(s, "=")

\* is_java_method_start(line); a line that does not match the expression
\* gets False from the field check and from the last return alike
is_java_method_start(raw) ==
    LET s == Strip(raw)
    IN  IF s = <<>> \/ \E c \in comment_prefixes : StartsWith(s, c)
        THEN FALSE
        ELSE IF \E kw \in non_method_keywords_prefix : StartsWith(s, kw)
        THEN FALSE
        ELSE IF StatementRejected(s)
        THEN FALSE
        ELSE IF java_method_regex_match(s)
        THEN MatchedResult(s)
        ELSE FALSE

----------------------------------------------------------------------------
(* calls of is_java_method_start *)

kwPublic == <<"p", "u", "b", "l", "i", "c">>
kwAbstract == <<"a", "b", "s", "t", "r", "a", "c", "t">>
kwNative == <<"n", "a", "t", "i", "v", "e">>

\* a generated declaration has at most MaxModifiers modifiers
MaxModifiers == 2

\* a modifier and the white space after it
ModifierChoices ==
    {w \o sp : w \in {kwPublic, kwAbstract, kwNative},
               sp \in {<<" ">>, <<"\t">>}}

RECURSIVE ModifierPrefixes(_)
ModifierPrefixes(n) ==
    IF n = 0 THEN {<<>>}
    ELSE LET shorter == ModifierPrefixes(n - 1)
         IN  shorter \cup {pre \o m : pre \in shorter, m \in ModifierChoices}

ReturnTypes ==
    { <<"v", "o", "i", "d">>,
      <<"A", "l", "t", "e", "r", "n", "a", "t", "i", "v", "e">> }

LineEndings == { <<>>, <<" ", "{">>, <<";">> }

\* [modifiers] type foo() [ending]
DeclarationLines ==
    {pre \o rt \o <<" ", "f", "o", "o", "(", ")">> \o ending :
        pre \in ModifierPrefixes(MaxModifiers), rt \in ReturnTypes,
        ending \in LineEndings}

\* lines that are no declarations: a conditional, a loop, a field with an
\* initializer, a method named forEach, a comment, a class, a call, a blank
OtherLines ==
    { <<"i", "f", " ", "(", "x", " ", ">", " ", "0", ")", " ", "{">>,
      <<"f", "o", "r", " ", "(", "i", "n", "t", " ", "i", " ", "=", " ",
        "0", ";", " ", "i", " ", "<", " ", "n", ";", " ", "i", "+", "+",
        ")", " ", "{">>,
      <<"p", "r", "i", "v", "a", "t", "e", " ", "f", "i", "n", "a", "l",
        " ", "S", "t", "r", "i", "n", "g", " ", "n", "a", "m", "e", " ",
        "=", " ", "\"", "D", "e", "f", "a", "u", "l", "t", "\"", ";">>,
      <<"v", "o", "i", "d", " ", "f", "o", "r", "E", "a", "c", "h", "(",
        "C", "o", "n", "s", "u", "m", "e", "r", " ", "c", ")", " ", "{">>,
      <<"/", "/", " ", "v", "o", "i", "d", " ", "f", "o", "o", "(", ")",
        " ", "{">>,
      <<"c", "l", "a", "s", "s", " ", "F", "o", "o", " ", "{">>,
      <<"f", "o", "o", "(", ")", ";">>,
      <<" ", " ">> }

\* the words that head a statement: conditionals, loops, switch, exception
\* handling, jumps and allocation
StatementHeads ==
    { <<"i", "f">>, <<"e", "l", "s", "e">>, <<"f", "o", "r">>, <<"w", "h", "i", "l", "e">>, <<"d", "o">>, <<"s", "w", "i", "t", "c", "h">>, <<"t", "r", "y">>, <<"c", "a", "t", "c", "h">>,
      <<"f", "i", "n", "a", "l", "l", "y">>, <<"r", "e", "t", "u", "r", "n">>, <<"t", "h", "r", "o", "w">>, <<"n", "e", "w">> }

\* delegating constructor calls
DelegatingCalls == { <<"s", "u", "p", "e", "r", "(">>, <<"t", "h", "i", "s", "(">> }

\* what follows the head of a statement
HeadFollowers == { <<"(">>, <<"{">>, <<" ">> }

StatementTails ==
    { <<>>, <<"x", " ", ">", " ", "0", ")", " ", "{">>, <<"(", "x", " ", ">", " ", "0", ")", " ", "{">>, <<"i", "f", " ", "(", "x", " ", ">", " ", "0", ")", " ", "{">>, <<"f", "o", "o", "(", ")", ";">>, <<"x", ";">> }

\* lines that begin with the head of a statement
StatementLines ==
    {h \o f \o t : h \in StatementHeads, f \in HeadFollowers,
                   t \in StatementTails}
    \cup {d \o t : d \in DelegatingCalls, t \in StatementTails}

\* fields with an initializer: [modifiers] Type name = expr;
FieldLines ==
    {pre \o ty \o <<" ", "n", "a", "m", "e", " ", "=", " ">> \o expr \o <<";">> :
        pre \in { <<>>, <<"p", "r", "i", "v", "a", "t", "e", " ", "f", "i", "n", "a", "l", " ">>, <<"s", "t", "a", "t", "i", "c", " ">> },
        ty \in { <<"S", "t", "r", "i", "n", "g">>, <<"i", "n", "t", "[", "]">>, <<"L", "i", "s", "t", "<", "S", "t", "r", "i", "n", "g", ">">> },
        expr \in { <<"\"", "D", "e", "f", "a", "u", "l", "t", "\"">>, <<"1">>, <<"f", "o", "o", "(", ")">>, <<"n", "e", "w", " ", "F", "o", "o", "(", "1", ")">> }}

\* identifiers that begin with a statement keyword
PrefixedNames ==
    { <<"f", "o", "r", "E", "a", "c", "h">>, <<"i", "f", "R", "e", "a", "d", "y">>, <<"r", "e", "t", "u", "r", "n", "V", "a", "l", "u", "e">>, <<"n", "e", "w", "I", "n", "s", "t", "a", "n", "c", "e">>, <<"t", "r", "y", "L", "o", "c", "k">>,
      <<"t", "h", "i", "s", "O", "n", "e">>, <<"d", "o", "u", "b", "l", "e", "d">> }

\* a declaration of a method with such a name
PrefixedDeclaration(n) == <<"v", "o", "i", "d", " ">> \o n \o <<"(", "C", "o", "n", "s", "u", "m", "e", "r", " ", "c", ")", " ", "{">>

\* lines in which such an identifier is the first word or the method's name
PrefixedLines ==
    {n \o t : n \in PrefixedNames,
              t \in { <<"(", "x", ")", ";">>, <<" ", "f", "o", "o", "(", ")", " ", "{">>, <<"(", ")", " ", "{">>, <<" ", "x", " ", "=", " ", "1", ";">> }}
    \cup {PrefixedDeclaration(n) : n \in PrefixedNames}

JavaLines ==
    DeclarationLines \cup OtherLines \cup StatementLines \cup FieldLines
        \cup PrefixedLines

\* the state before a call of is_java_method_start(line)
InitJavaWith(lines) ==
    /\ line \in lines
    /\ java_result = FALSE
    /\ pc = "start"
    /\ self \in {c \in ScanConfigs : c.highlight_functions}
    /\ tokens = <<>>
    /\ i = 0
    /\ function_signatures = <<>>
    /\ current_line = <<>>
    /\ line_number = 0
    /\ token_idx = 0
    /\ outfile = <<>>
    /\ nl_consumed = 0
    /\ scan_start = 0
    /\ scan_result = NoScan
    /\ options = NoOptions
    /\ other = NoCall
    /\ category = Name
    /\ style = NoStyle

\* java_result = is_java_method_start(line)
Classify ==
    /\ pc = "start"
    /\ java_result' = is_java_method_start(line)
    /\ pc' = "classified"
    /\ UNCHANGED <<self, tokens, i, function_signatures, current_line,
                   line_number, token_idx, outfile, nl_consumed, line>>
    /\ UNCHANGED <<scan_vars, init_vars, style_vars>>

NextJava == Classify

SpecJava == InitJavaWith(JavaLines) /\ [][NextJava]_vars

\* C9: for a line that matches the declaration pattern, with the modifier
\* abstract the result is true iff the line does not end in '{'; with the
\* modifier native it is true iff the line ends in ';' and not in '{'.
C9_AbstractNativeExclusivity ==
    (pc = "classified" /\ java_method_regex_match(Strip(line)))
    => LET s == Strip(line)
       IN  /\ kwAbstract \in ModifiersOf(s)
              => (java_result <=> ~EndsWith(s, <<"{">>))
           /\ kwNative \in ModifiersOf(s)
              => (java_result <=>
                      (EndsWith(s, <<";">>) /\ ~EndsWith(s, <<"{">>)))

\* C10: a line that matches the declaration pattern and has neither abstract
\* nor native among its modifiers is classified true, whether it ends in
\* '{', in ';' or in neither.
C10_ConcreteDeclarations ==
    (pc = "classified" /\ java_method_regex_match(Strip(line)))
    => LET s == Strip(line)
       IN  (kwAbstract \notin ModifiersOf(s) /\ kwNative \notin ModifiersOf(s))
           => java_result

\* the first word of the line is the head of a statement followed by a
\* space, '(' or '{', or the line begins with a delegating call
IsStatementHead(s) ==
    \/ \E h \in StatementHeads, f \in HeadFollowers : StartsWith(s, h \o f)
    \/ \E d \in DelegatingCalls : StartsWith(s, d)

\* C11: a line whose first word is a control-flow or jump keyword (if, else,
\* for, while, do, switch, try, catch, finally, return, throw, new) followed
\* by a space, '(' or '{', or that begins with super( or this(, is
\* classified false.
C11_StatementRejection ==
    (pc = "classified" /\ IsStatementHead(Strip(line))) => ~java_result

\* an '=' occurs in the line before any '('
AssignsBeforeParen(s) ==
    HasChar(s, "=") /\ ~HasChar(Split(s, "=")[1], "(")

\* C12: a line in which an '=' occurs before any '(' (a field with an
\* initializer), and any line that does not match the declaration pattern,
\* is classified false.
C12_FieldInitializerRejection ==
    (/\ pc = "classified"
     /\ \/ AssignsBeforeParen(Strip(line))
        \/ ~java_method_regex_match(Strip(line)))
    => ~java_result

\* a field with an initializer that calls a method has been classified
C12_Witness ==
    /\ pc = "classified"
    /\ line \in FieldLines
    /\ AssignsBeforeParen(Strip(line))
    /\ HasChar(line, "(")
    /\ ~java_result

\* the line begins with a statement keyword that an identifier character
\* follows: its first word merely has the keyword as a proper prefix
KeywordPrefixed(s) ==
    \E h \in StatementHeads \cup {<<"s", "u", "p", "e", "r">>, <<"t", "h", "i", "s">>} :
        /\ StartsWith(s, h)
        /\ Len(s) > Len(h)
        /\ s[Len(h) + 1] \in WordChars \cup {"$"}

\* C13: a line whose first word has a statement keyword as a proper prefix is
\* not rejected by the statement-keyword fast path, its result is the result
\* of the pattern match, and a declaration of a method with such a name
\* (void forEach(Consumer c) {) is classified true.
C13_KeywordPrefixAcceptance ==
    pc = "classified"
    => LET s == Strip(line)
       IN  /\ KeywordPrefixed(s)
              => /\ ~StatementRejected(s)
                 /\ java_result <=>
                        (java_method_regex_match(s) /\ MatchedResult(s))
           /\ s \in {PrefixedDeclaration(n) : n \in PrefixedNames}
              => java_result

\* a line whose first word begins with a keyword has been classified true
C13_Witness ==
    /\ pc = "classified"
    /\ KeywordPrefixed(Strip(line))
    /\ java_method_regex_match(Strip(line))
    /\ java_result

\* C15: in every function_style, with highlight_functions on or off, a code
\* line written by _write_line carries the highlight annotation
\* ('# <<< HIGHLIGHTED') exactly when its line number is in hl_lines.
C15_HighlightAnnotation ==
    pc \in {"start", "prepass", "open", "emit", "done"}
    => \A m \in 1..Len(LinesWritten) :
           LinesWritten[m].mark = "highlighted"
               <=> LinesWritten[m].num \in self.hl_lines

----------------------------------------------------------------------------
(* calls of the constructor of MarkdownFormatter *)

\* the largest integer given as fence_count
MaxFenceCount == 5

\* the values given for the three options
FenceCharOptions ==
    {Absent, IntOpt(1)}
    \cup {TextOpt(t) : t \in {Backtick, Tilde, "", "x", "~~"}}

FenceCountOptions ==
    {Absent, TextOpt("many")} \cup {IntOpt(n) : n \in -1..MaxFenceCount}

FunctionStyleOptions ==
    {Absent, IntOpt(1)}
    \cup {TextOpt(t) : t \in {"callout", "emphasis", "heading", "Callout",
                              "bold", ""}}

OptionSets ==
    [fence_char : FenceCharOptions, fence_count : FenceCountOptions,
     function_style : FunctionStyleOptions]

\* the state before a call of the constructor
InitNew ==
    /\ options \in OptionSets
    /\ self = None
    /\ pc = "new"
    /\ tokens = <<>>
    /\ i = 0
    /\ function_signatures = <<>>
    /\ current_line = <<>>
    /\ line_number = 0
    /\ token_idx = 0
    /\ outfile = <<>>
    /\ nl_consumed = 0
    /\ scan_start = 0
    /\ scan_result = NoScan
    /\ line = <<>>
    /\ java_result = FALSE
    /\ other = NoCall
    /\ category = Name
    /\ style = NoStyle

\* self = MarkdownFormatter(fence_char=..., fence_count=..., function_style=...)
Construct ==
    /\ pc = "new"
    /\ self' = init(options)
    /\ pc' = "constructed"
    /\ UNCHANGED <<tokens, i, function_signatures, current_line, line_number,
                   token_idx, outfile, nl_consumed, options, other>>
    /\ UNCHANGED <<scan_vars, java_vars, style_vars>>

NextNew == Construct

SpecNew == InitNew /\ [][NextNew]_vars

\* the option holds a value that is valid for fence_char
ValidFenceChar(opt) ==
    opt.given /\ ~opt.isint /\ opt.text \in {Backtick, Tilde}

\* the option holds a value that is valid for fence_count
ValidFenceCount(opt) == opt.given /\ opt.isint /\ opt.num >= 3

\* the option holds a value that is valid for function_style
ValidFunctionStyle(opt) ==
    opt.given /\ ~opt.isint
        /\ opt.text \in {"callout", "emphasis", "heading"}

----------------------------------------------------------------------------
(* calls of _get_markdown_style *)

\* the state before a call of self._get_markdown_style(category)
InitStyle ==
    /\ self \in {c \in Configs : /\ c.function_style = "emphasis"
                                 /\ ~c.linenos /\ c.hl_lines = {}
                                 /\ ~c.full}
    /\ category \in Categories
    /\ style = NoStyle
    /\ pc = "start"
    /\ tokens = <<>>
    /\ i = 0
    /\ function_signatures = <<>>
    /\ current_line = <<>>
    /\ line_number = 0
    /\ token_idx = 0
    /\ outfile = <<>>
    /\ nl_consumed = 0
    /\ scan_start = 0
    /\ scan_result = NoScan
    /\ line = <<>>
    /\ java_result = FALSE
    /\ options = NoOptions
    /\ other = NoCall

\* style = self._get_markdown_style(category)
GetStyle ==
    /\ pc = "start"
    /\ style' = get_markdown_style(category)
    /\ pc' = "styled"
    /\ UNCHANGED <<self, tokens, i, function_signatures, current_line,
                   line_number, token_idx, outfile, nl_consumed, category>>
    /\ UNCHANGED <<scan_vars, java_vars, init_vars>>

NextStyle == GetStyle

SpecStyle == InitStyle /\ [][NextStyle]_vars

\* the category has a listed ancestor
RECURSIVE HasListedAncestor(_)
HasListedAncestor(c) ==
    /\ c # "Token"
    /\ Parent(c) \in Listed \/ HasListedAncestor(Parent(c))

\* the nearest listed ancestor of a category that has one
RECURSIVE NearestListed(_)
NearestListed(c) ==
    IF Parent(c) \in Listed THEN Parent(c) ELSE NearestListed(Parent(c))

\* C16: with inline styling enabled, a category that the style table does
\* not list gets the (prefix, suffix) of its nearest listed ancestor; with
\* inline styling disabled every category gets ('', '').
C16_StyleFallback ==
    pc = "styled"
    => IF ~self.inline_styles
       THEN style = [prefix |-> <<>>, suffix |-> <<>>]
       ELSE (category \notin Listed /\ HasListedAncestor(category))
            => style = get_markdown_style(NearestListed(category))

----------------------------------------------------------------------------
(* two calls of format_unencoded on one formatter, interleaved *)

\* the local variables of a call that has not begun
Start(toks) ==
    [pc |-> "start", tokens |-> toks, i |-> 0, function_signatures |-> <<>>,
     current_line |-> <<>>, line_number |-> 0, token_idx |-> 0,
     outfile |-> <<>>, nl_consumed |-> 0]

\* the local variables of the running call
Locals ==
    [pc |-> pc, tokens |-> tokens, i |-> i,
     function_signatures |-> function_signatures,
     current_line |-> current_line, line_number |-> line_number,
     token_idx |-> token_idx, outfile |-> outfile,
     nl_consumed |-> nl_consumed]

\* function_signatures kept in a place that both calls write
ResumedSignatures_Shared == function_signatures

\* function_signatures as the resumed call finds it: the list is a local
\* variable of the call
ResumedSignatures == other.function_signatures

\* the scheduler suspends the running call and resumes the other one
Switch ==
    /\ other.pc # "none"
    /\ other' = Locals
    /\ pc' = other.pc
    /\ tokens' = other.tokens
    /\ i' = other.i
    /\ function_signatures' = ResumedSignatures
    /\ current_line' = other.current_line
    /\ line_number' = other.line_number
    /\ token_idx' = other.token_idx
    /\ outfile' = other.outfile
    /\ nl_consumed' = other.nl_consumed
    /\ UNCHANGED <<self, options>>
    /\ UNCHANGED <<scan_vars, java_vars, style_vars>>

\* each stream of a pair holds at most MaxPairFragments fragments
MaxPairFragments == 2

PairFragments ==
    { <<tName, tNewline>>, <<tDef, tSpace, tName, tOpen, tClose>> }

RECURSIVE PairStreamsOf(_)
PairStreamsOf(n) ==
    IF n = 0 THEN {<<>>}
    ELSE LET shorter == PairStreamsOf(n - 1)
         IN  shorter \cup {st \o fr : st \in shorter, fr \in PairFragments}

PairStreams == PairStreamsOf(MaxPairFragments)

PairConfigs ==
    {c \in Configs : /\ c.highlight_functions /\ ~c.linenos
                     /\ ~c.inline_styles /\ c.hl_lines = {} /\ ~c.full}

\* two calls on one formatter, neither of which has begun
InitPair ==
    /\ self \in PairConfigs
    /\ tokens \in PairStreams
    /\ other \in {Start(toks) : toks \in PairStreams}
    /\ pc = "start"
    /\ i = 0
    /\ function_signatures = <<>>
    /\ current_line = <<>>
    /\ line_number = 0
    /\ token_idx = 0
    /\ outfile = <<>>
    /\ nl_consumed = 0
    /\ scan_start = 0
    /\ scan_result = NoScan
    /\ line = <<>>
    /\ java_result = FALSE
    /\ options = NoOptions
    /\ category = Name
    /\ style = NoStyle

NextPair ==
    Begin \/ PrepassStep \/ OpenBlock \/ Splice \/ Emit \/ Finish \/ Switch

SpecPair == InitPair /\ [][NextPair]_vars

\* one step of a call that runs alone, on its local variables
StepAlone(st) ==
    IF st.pc = "start"
    THEN [st EXCEPT !.outfile = @ \o HeaderEntries,
                    !.function_signatures = <<>>,
                    !.i = 0,
                    !.pc = IF self.highlight_functions THEN "prepass"
                           ELSE "open"]
    ELSE IF st.pc = "prepass" /\ st.i < Len(st.tokens)
    THEN LET r == is_function_definition(st.tokens, st.i)
         IN  [st EXCEPT !.function_signatures =
                            IF r.found
                            THEN Append(@, SignatureRecord(st.tokens, st.i, r))
                            ELSE @,
                        !.i = NextScanIndex(st.i, r)]
    ELSE IF st.pc \in {"prepass", "open"}
    THEN [st EXCEPT !.outfile = @ \o SummaryEntries(st.function_signatures)
                                  \o <<FenceOpen>>,
                    !.current_line = <<>>,
                    !.line_number = self.linenostart,
                    !.token_idx = 0,
                    !.pc = "emit"]
    ELSE IF st.token_idx >= Len(st.tokens)
    THEN [st EXCEPT !.outfile = @ \o FinishEntries(st.current_line,
                                        st.line_number, st.tokens,
                                        st.function_signatures,
                                        st.nl_consumed),
                    !.pc = "done"]
    ELSE IF /\ HasCurrentFunc(st.function_signatures, st.token_idx)
            /\ self.function_style # "emphasis"
    THEN LET func == CurrentFunc(st.function_signatures, st.token_idx)
         IN  [st EXCEPT !.outfile = @ \o SpliceEntries(func, st.current_line,
                                             st.line_number, st.nl_consumed),
                        !.current_line = <<>>,
                        !.token_idx = func.end_idx,
                        !.nl_consumed = @ + Count(TextOf(Slice(st.tokens,
                                             st.token_idx, func.end_idx)), NL)]
    ELSE LET e == EmitToken(st.current_line, st.line_number, st.tokens,
                            st.token_idx, st.nl_consumed)
         IN  [st EXCEPT !.outfile = @ \o e.written,
                        !.current_line = e.current_line,
                        !.line_number = e.line_number,
                        !.nl_consumed =
                            @ + Count(st.tokens[st.token_idx + 1].value, NL),
                        !.token_idx = @ + 1]

\* what a call writes for the stream toks when it runs alone
RECURSIVE RunAlone(_)
RunAlone(st) == IF st.pc = "done" THEN st.outfile ELSE RunAlone(StepAlone(st))

\* a finished call has written what it writes when it runs alone
IndependentOutputs ==
    /\ pc = "done" => outfile = RunAlone(Start(tokens))
    /\ other.pc = "done" => other.outfile = RunAlone(Start(other.tokens))

\* C17: two format_unencoded calls on one formatter, each with its own
\* token stream and output, interleaved in any way, each write what they
\* write when run alone; no step of a call writes a configuration field.
C17_RenderIndependence ==
    /\ [](pc \in {"start", "prepass", "open", "emit", "done"}
            /\ other.pc # "none" => IndependentOutputs)
    /\ [][self' = self]_vars

\* both calls have finished: one found a signature in its stream and wrote
\* its call-out block or heading, the other found none in its own stream
C17_Witness ==
    /\ pc = "done"
    /\ other.pc = "done"
    /\ other.tokens # <<>>
    /\ Len(function_signatures) = 1
    /\ Len(other.function_signatures) = 0
    /\ Len(EntriesOf(outfile, {"callout", "heading"})) = 1
    /\ Len(EntriesOf(other.outfile, {"callout", "heading"})) = 0

----------------------------------------------------------------------------
(* calls of _is_function_definition on a declaration head and what follows
   its opening parenthesis *)

\* at most MaxParamLen tokens follow the opening parenthesis
MaxParamLen == 4

\* def f(
SignatureHead == <<tDef, tSpace, tName, tOpen>>

ParamAlphabet == {tOpen, tClose, tName, tSpace, tIndent, tNewline, tColon}

RECURSIVE ParamStreamsOf(_)
ParamStreamsOf(n) ==
    IF n = 0 THEN {SignatureHead}
    ELSE LET shorter == ParamStreamsOf(n - 1)
         IN  shorter \cup {Append(st, t) : st \in shorter, t \in ParamAlphabet}

ParamStreams == ParamStreamsOf(MaxParamLen)

InitSig == InitWith({c \in ScanConfigs : c.highlight_functions}, ParamStreams)

SpecSig == InitSig /\ [][NextScan]_vars

\* the index of the first opening parenthesis at or after index k
RECURSIVE FirstOpen(_, _)
FirstOpen(toks, k) ==
    IF k < Len(toks) /\ toks[k + 1] # tOpen THEN FirstOpen(toks, k + 1) ELSE k

\* the depth after the tokens o+1 .. c, for a parenthesis opened at index o
Depth(toks, o, c) ==
    1 + Cardinality({m \in (o + 1)..c : toks[m + 1] = tOpen})
      - Cardinality({m \in (o + 1)..c : toks[m + 1] = tClose})

\* the parenthesis opened at index o is closed
Balanced(toks, o) == \E c \in (o + 1)..(Len(toks) - 1) : Depth(toks, o, c) = 0

\* the index of the closing parenthesis that matches the one opened at o
MatchingClose(toks, o) ==
    CHOOSE c \in (o + 1)..(Len(toks) - 1) :
        /\ Depth(toks, o, c) = 0
        /\ \A b \in (o + 1)..(c - 1) : Depth(toks, o, b) > 0

\* C19: when the parentheses after the name are balanced, the parameters
\* returned are the texts of the tokens strictly between the opening
\* parenthesis and the closing parenthesis that matches it (nested
\* parentheses included), whitespace runs collapsed to one space and the ends
\* trimmed, and the scan of the parameters stops at that closing parenthesis.
C19_ParameterScan ==
    (pc = "scanned" /\ scan_result.found
        /\ Balanced(tokens, FirstOpen(tokens, scan_start)))
    => LET o == FirstOpen(tokens, scan_start)
           c == MatchingClose(tokens, o)
       IN  /\ scan_result.parameters =
                  CollapseSpaces(Strip(TextOf(Slice(tokens, o + 1, c))))
           /\ ParamScan(tokens, o + 1, 1, <<>>).i = c + 1
           /\ scan_result.end_idx > c

\* a scan has returned a parameter text with a nested pair of parentheses
C19_Witness ==
    /\ pc = "scanned"
    /\ scan_result.found
    /\ Balanced(tokens, FirstOpen(tokens, scan_start))
    /\ scan_result.parameters = <<"(", "f", ")">>

\* the text of the token ends a signature: ':', '{', ';' or a text that
\* holds a newline
EndsSignature(t) ==
    t.value \in { <<":">>, <<"{">>, <<";">> } \/ HasChar(t.value, NL)

\* the first index at or after k of a token that ends a signature, or the
\* length of the stream
RECURSIVE FirstEnd(_, _)
FirstEnd(toks, k) ==
    IF k < Len(toks) /\ ~EndsSignature(toks[k + 1]) THEN FirstEnd(toks, k + 1)
    ELSE k

\* C20: when the scan succeeds, its end index is the index of the first
\* token after the closing parenthesis whose text is ':', '{' or ';' or holds
\* a newline (also together with other characters), or the length of the
\* token sequence when there is no such token.
C20_TerminatorScan ==
    (pc = "scanned" /\ scan_result.found
        /\ Balanced(tokens, FirstOpen(tokens, scan_start)))
    => LET c == MatchingClose(tokens, FirstOpen(tokens, scan_start))
       IN  scan_result.end_idx = FirstEnd(tokens, c + 1)

----------------------------------------------------------------------------
(* the splices of the emission loop *)

\* the call-out and heading blocks written so far
Blocks == EntriesOf(outfile, {"callout", "heading"})

\* the kind of block the configured style writes
BlockKind == IF self.function_style = "callout" THEN "callout" ELSE "heading"

\* the records whose start_idx the emission loop has passed
RecordsPassed ==
    {m \in 1..Len(function_signatures) :
         function_signatures[m].start_idx < token_idx}

\* the language tag of the first fence written
FirstFenceLang == EntriesOf(outfile, {"fence_open"})[1].lang

\* in every state of the emission loop: one block for each record passed,
\* in record order, each between a closing fence and a reopened fence, and
\* token_idx never inside the range of a record
SplicedSoFar ==
    (pc \in {"emit", "done"} /\ self.function_style \in {"callout", "heading"})
    => /\ Len(Blocks) = Cardinality(RecordsPassed)
       /\ \A m \in 1..Len(Blocks) :
              /\ Blocks[m].kind = BlockKind
              /\ Blocks[m].name = function_signatures[m].name
       /\ \A m \in 1..Len(function_signatures) :
              ~(/\ function_signatures[m].start_idx < token_idx
                /\ token_idx < function_signatures[m].end_idx)
       /\ \A p \in 1..Len(outfile) :
              outfile[p].kind \in {"callout", "heading"}
              => /\ p > 1 /\ outfile[p - 1].kind = "fence_close"
                 /\ p < Len(outfile) /\ outfile[p + 1].kind = "fence_open"
                 /\ outfile[p + 1].lang = FirstFenceLang
       /\ pc = "done" => Len(Blocks) = Len(function_signatures)

\* the pass of the loop at the start_idx of a record: the pending line, the
\* closing fence, the block of that record, the fence again, and token_idx
\* at the record's end_idx
SpliceStep ==
    (/\ pc = "emit" /\ token_idx < Len(tokens)
     /\ self.function_style \in {"callout", "heading"}
     /\ \E m \in 1..Len(function_signatures) :
            function_signatures[m].start_idx = token_idx)
    => \E m \in 1..Len(function_signatures) :
           /\ function_signatures[m].start_idx = token_idx
           /\ token_idx' = function_signatures[m].end_idx
           /\ current_line' = <<>>
           /\ LET flushed == IF current_line = <<>> THEN 0 ELSE 1
                  added == SubSeq(outfile', Len(outfile) + 1, Len(outfile'))
              IN  /\ SubSeq(outfile', 1, Len(outfile)) = outfile
                  /\ Len(added) = flushed + 3
                  /\ flushed = 1 => /\ added[1].kind = "line"
                                    /\ added[1].parts = current_line
                  /\ added[flushed + 1].kind = "fence_close"
                  /\ added[flushed + 2].kind = BlockKind
                  /\ added[flushed + 2].name = function_signatures[m].name
                  /\ added[flushed + 3].kind = "fence_open"
                  /\ added[flushed + 3].lang = self.lang

\* C21: for the styles callout and heading the emission loop reaches the
\* start_idx of every Signature Record exactly once; there it writes the
\* pending partial line, the closing fence, one block naming the record's
\* function and a fence with the language tag of the first fence, in this
\* order, and goes on at the record's end_idx; the output holds one block
\* for each record, in record order.
C21_SplicePerSignature == [](SplicedSoFar) /\ [][SpliceStep]_vars

\* a finished heading render of a stream with two records: two blocks, each
\* followed by a reopened fence, the loop having gone from the end_idx of
\* the first record to the start_idx of the second
C21_Witness ==
    /\ pc = "done"
    /\ self.function_style = "heading"
    /\ Len(function_signatures) = 2
    /\ function_signatures[1].end_idx <= function_signatures[2].start_idx
    /\ Len(Blocks) = 2
    /\ Len(EntriesOf(outfile, {"fence_open"})) = 3

----------------------------------------------------------------------------
(* the function marker of the style emphasis *)

\* the text of the written line e, without the whitespace at its ends,
\* holds a callable-introducer keyword followed by a space
HoldsLineKeyword(e) ==
    \E keyword \in LineKeywords : Contains(Strip(LineText(e)), keyword)

\* C22: with the style emphasis and highlight_functions on, every written
\* line whose own text holds one of the keywords def, function, fn, func,
\* method, proc, procedure, sub followed by a space (inside the line, the
\* whitespace at its ends not counted) carries the function marker,
\* whatever the lines before it hold.
C22_EmphasisAnnotation ==
    (self.function_style = "emphasis" /\ self.highlight_functions)
    => \A m \in 1..Len(LinesWritten) :
           HoldsLineKeyword(LinesWritten[m])
           => LinesWritten[m].mark = "function"

----------------------------------------------------------------------------
(* termination of format_unencoded *)

\* the configurations of the calls followed to their end: every value of
\* the two options the loops test, highlight_functions and function_style;
\* the other options at their defaults
LiveConfigs ==
    {c \in Configs : /\ ~c.linenos /\ ~c.inline_styles /\ c.hl_lines = {}
                     /\ ~c.full}

\* the streams of these calls: no token, no declaration, a declaration at
\* the start, after a text and before a line, and one that the stream ends
\* inside of
LiveStreams ==
    { <<>>,
      <<tText, tNewline>>,
      <<tDef, tSpace, tName, tOpen, tClose>>,
      <<tText, tDef, tSpace, tName, tOpen, tClose>>,
      <<tDef, tSpace, tName, tOpen, tClose, tNewline, tText>>,
      <<tDef, tSpace, tName, tOpen>> }

InitLive == InitWith(LiveConfigs, LiveStreams)

\* format_unencoded is sequential code: a call that can take a step takes it
SpecLive == InitLive /\ [][Next]_vars /\ WF_vars(Next)

\* a successful scan of the pre-pass ends after its start and inside the
\* stream
ScanAdvances ==
    (pc = "prepass" /\ i < Len(tokens))
    => LET r == is_function_definition(tokens, i)
       IN  r.found => (i < r.end_idx /\ r.end_idx <= Len(tokens))

\* every pass of the pre-pass loop increases i and every pass of the
\* emission loop increases token_idx, up to the length of the stream
LoopsAdvance ==
    /\ (pc = "prepass" /\ pc' = "prepass")
       => (i < i' /\ i' <= Len(tokens))
    /\ (pc = "emit" /\ pc' = "emit")
       => (token_idx < token_idx' /\ token_idx' <= Len(tokens))

\* C23: for every token stream and every configuration format_unencoded
\* terminates: the pre-pass index and the emission index increase on every
\* pass of their loops, every successful scan ends after its start index
\* and at most at the length of the stream, and the call reaches its end.
C23_Termination ==
    /\ [](ScanAdvances)
    /\ [][LoopsAdvance]_vars
    /\ <>(pc = "done")

\* a finished call whose pre-pass and emission loop both went through a
\* stream with a signature and a token after it
C23_Witness ==
    /\ pc = "done"
    /\ self.highlight_functions
    /\ i = Len(tokens)
    /\ token_idx = Len(tokens)
    /\ Len(function_signatures) = 1
    /\ function_signatures[1].end_idx < Len(tokens)

\* the text of the written line e holds one of the callable-introducer
\* keywords, followed by a space or not
HoldsKeywordWord(e) ==
    \E keyword \in LineKeywords :
        Contains(LineText(e), SubSeq(keyword, 1, Len(keyword) - 1))

\* C24: with the style emphasis, a line is written with the function marker
\* only if the text of that line itself holds a callable-introducer keyword;
\* a line that follows a declaration line is not marked because of it.
C24_NoMarkerLeakage ==
    self.function_style = "emphasis"
    => \A m \in 1..Len(LinesWritten) :
           LinesWritten[m].mark = "function"
           => HoldsKeywordWord(LinesWritten[m])

----------------------------------------------------------------------------
(* call-out renders of streams with several declarations *)

\* a rendered stream has at most MaxCalloutFragments fragments
MaxCalloutFragments == 4

\* a line break, a declaration, a name
CalloutFragments ==
    {<<tNewline>>, <<tName>>, <<tDef, tSpace, tName, tOpen, tClose>>}

RECURSIVE CalloutStreamsOf(_)
CalloutStreamsOf(n) ==
    IF n = 0 THEN {<<>>}
    ELSE LET shorter == CalloutStreamsOf(n - 1)
         IN  shorter \cup {st \o f : st \in shorter, f \in CalloutFragments}

CalloutStreams == CalloutStreamsOf(MaxCalloutFragments)

\* the style callout, linenostart 1, highlight_functions on or off, the
\* other options at their defaults
CalloutConfigs ==
    {c \in Configs : /\ c.function_style = "callout" /\ c.linenostart = 1
                     /\ ~c.linenos /\ ~c.inline_styles /\ c.hl_lines = {}
                     /\ ~c.full}

InitCallout == InitWith(CalloutConfigs, CalloutStreams)

SpecCallout == InitCallout /\ [][Next]_vars

\* the items of the 'Functions Found' summary
SummaryItems == EntriesOf(outfile, {"summary_item"})

\* C25: with the style callout and linenostart 1, the line number written
\* in the call-out block of every Signature Record ('> Line N') is the line
\* number listed for the same record in the 'Functions Found' summary, for
\* streams with any number of signatures.
C25_CalloutLineAgreesWithSummary ==
    (self.function_style = "callout" /\ self.linenostart = 1)
    => \A m \in 1..Len(Blocks) : Blocks[m].num = SummaryItems[m].num

====
